---- MODULE Spec2Model ----
(***************************************************************************)
(* Model of langchain/agents/output_parsers/tools.py:                      *)
(*   parse_ai_message_to_tool_action  (the normalizer, a pure function)    *)
(*   ToolsAgentOutputParser.parse_result / .parse  (the adapter)           *)
(*                                                                         *)
(* Python values are encoded as records [t, a, l, d]:                      *)
(*   t  the Python type ("str", "int", "none", "list", "dict")             *)
(*   a  the text of a str / int                                            *)
(*   l  the items of a list (strings)                                      *)
(*   d  the items of a dict, in insertion order, as <<key, value>> pairs   *)
(* Formatted strings (f-strings, str()) are sequences of text segments.    *)
(***************************************************************************)
EXTENDS Integers, Sequences, FiniteSets, TLC

VARIABLES message, op, result, partial, text, outcome, normalizer_calls

vars == <<message, op, result, partial, text, outcome, normalizer_calls>>

\* ---------------------------------------------------------------- bounds
\* most tool-call entries (structured plus legacy) one message carries
MaxCalls == 2
\* most generations that follow the first one in a parse_result input
MaxRest == 1

SeqsUpTo(S, n) == UNION {[1..k -> S] : k \in 0..n}

\* ---------------------------------------------------------- Python values
PStr(s) == [t |-> "str", a |-> s, l |-> <<>>, d |-> <<>>]
PInt(s) == [t |-> "int", a |-> s, l |-> <<>>, d |-> <<>>]
PNone == [t |-> "none", a |-> "", l |-> <<>>, d |-> <<>>]
PList(items) == [t |-> "list", a |-> "", l |-> items, d |-> <<>>]
PDict(pairs) == [t |-> "dict", a |-> "", l |-> <<>>, d |-> pairs]

\* bool(v): empty strings and empty containers are falsy
Truthy(v) ==
    CASE v.t = "str" -> v.a # ""
      [] v.t = "int" -> v.a # "0"
      [] v.t = "none" -> FALSE
      [] v.t = "list" -> v.l # <<>>
      [] v.t = "dict" -> v.d # <<>>

RECURSIVE ReprItems(_)
ReprItems(items) ==
    IF items = <<>> THEN <<>>
    ELSE <<"'", Head(items), "'">>
         \o (IF Len(items) > 1 THEN <<", ">> ELSE <<>>)
         \o ReprItems(Tail(items))

RECURSIVE ReprPairs(_)
ReprPairs(pairs) ==
    IF pairs = <<>> THEN <<>>
    ELSE <<"'", Head(pairs)[1], "': '", Head(pairs)[2], "'">>
         \o (IF Len(pairs) > 1 THEN <<", ">> ELSE <<>>)
         \o ReprPairs(Tail(pairs))

\* str(v) / f"{v}", as text segments
PyStr(v) ==
    CASE v.t = "str" -> <<v.a>>
      [] v.t = "int" -> <<v.a>>
      [] v.t = "none" -> <<"None">>
      [] v.t = "list" -> <<"[">> \o ReprItems(v.l) \o <<"]">>
      [] v.t = "dict" -> <<"{">> \o ReprPairs(v.d) \o <<"}">>

HasKey(pairs, k) == \E i \in DOMAIN pairs : pairs[i][1] = k
ValueOf(pairs, k) == pairs[CHOOSE i \in DOMAIN pairs : pairs[i][1] = k][2]

\* ------------------------------------------------------------- json.loads
SentinelJson == "{\"__arg1\": \"hello\"}"
ABJson == "{\"a\": \"1\", \"b\": \"2\"}"
MixedJson == "{\"__arg1\": \"hello\", \"a\": \"1\"}"

\* the argument strings a legacy descriptor may carry
ArgStrings ==
    {"", SentinelJson, ABJson, MixedJson,
     "{invalid", "{'a': 1}", "[1]", "1", "\"x\"", "null"}

\* json.loads on the strings above: ok = FALSE stands for JSONDecodeError
json_loads(s) ==
    CASE s = "{}" -> [ok |-> TRUE, val |-> PDict(<<>>)]
      [] s = SentinelJson ->
            [ok |-> TRUE, val |-> PDict(<< <<"__arg1", "hello">> >>)]
      [] s = ABJson ->
            [ok |-> TRUE, val |-> PDict(<< <<"a", "1">>, <<"b", "2">> >>)]
      [] s = MixedJson ->
            [ok |-> TRUE,
             val |-> PDict(<< <<"__arg1", "hello">>, <<"a", "1">> >>)]
      [] s = "[1]" -> [ok |-> TRUE, val |-> PList(<<"1">>)]
      [] s = "1" -> [ok |-> TRUE, val |-> PInt("1")]
      [] s = "\"x\"" -> [ok |-> TRUE, val |-> PStr("x")]
      [] s = "null" -> [ok |-> TRUE, val |-> PNone]
      [] OTHER -> [ok |-> FALSE, val |-> PNone]

\* ------------------------------------------------------------ the inputs
\* ToolCall(name, args, id): the structured entries of AIMessage.tool_calls
ToolCall(name, args, id) == [name |-> name, args |-> args, id |-> id]

StructuredPool ==
    {ToolCall("search", PDict(<< <<"__arg1", "hello">> >>), "call_1"),
     ToolCall("calc", PDict(<< <<"a", "1">>, <<"b", "2">> >>), "call_2"),
     ToolCall("search", PDict(<<>>), "call_3"),
     ToolCall("calc", PDict(<< <<"a", "1">>, <<"__arg1", "hello">> >>),
              "call_4")}

\* a legacy descriptor {id, function: {name, arguments}}
Descriptor(id, name, arguments) ==
    [id |-> id, function |-> [name |-> name, arguments |-> arguments]]

LegacyPool ==
    {Descriptor("old_1", "search", ""),
     Descriptor("old_2", "calc", SentinelJson),
     Descriptor("old_3", "search", ABJson),
     Descriptor("old_4", "calc", MixedJson),
     Descriptor("old_5", "search", "{invalid"),
     Descriptor("old_6", "calc", "{'a': 1}"),
     Descriptor("old_7", "search", "[1]"),
     Descriptor("old_8", "calc", "1"),
     Descriptor("old_9", "search", "\"x\""),
     Descriptor("old_10", "calc", "null")}

\* additional_kwargs, as far as the key "tool_calls" goes
NoLegacy == [has_tool_calls |-> FALSE, tool_calls |-> <<>>]
Legacy(descriptors) == [has_tool_calls |-> TRUE, tool_calls |-> descriptors]
LegacyUpTo(n) == {NoLegacy} \cup {Legacy(ds) : ds \in SeqsUpTo(LegacyPool, n)}

\* message.content: a string or a list of blocks
Contents == {PStr(""), PStr("thinking"), PList(<<"block">>)}

AIMessage(content, tool_calls, additional_kwargs) ==
    [type |-> "ai", content |-> content, tool_calls |-> tool_calls,
     additional_kwargs |-> additional_kwargs]

HumanMessage(content) ==
    [type |-> "human", content |-> content, tool_calls |-> <<>>,
     additional_kwargs |-> NoLegacy]

AIMessages ==
    UNION {{AIMessage(c, tcs, kw) :
               c \in Contents, kw \in LegacyUpTo(MaxCalls - Len(tcs))} :
           tcs \in SeqsUpTo(StructuredPool, MaxCalls)}

Messages == AIMessages \cup {HumanMessage(PStr("hi"))}

\* Generation / ChatGeneration
NoMessage == HumanMessage(PStr(""))
ChatGeneration(m) == [kind |-> "ChatGeneration", message |-> m, text |-> ""]
Generation(t) == [kind |-> "Generation", message |-> NoMessage, text |-> t]

Texts == {"", "Final Answer: 4"}

RestPool ==
    {Generation("other"),
     ChatGeneration(AIMessage(PStr("other"),
                              <<ToolCall("calc", PDict(<<>>), "call_9")>>,
                              NoLegacy))}

\* ----------------------------------------------------------- the outcomes
NoFunction == [name |-> "", arguments |-> ""]
NoExc == [type |-> "", msg |-> "", function |-> NoFunction]

\* AgentFinish(return_values={"output": output}, log=log)
AgentFinish(output, log) ==
    [kind |-> "AgentFinish", output |-> output, log |-> log,
     actions |-> <<>>, exc |-> NoExc]

\* a returned list of actions
ActionList(acts) ==
    [kind |-> "actions", output |-> PNone, log |-> <<>>,
     actions |-> acts, exc |-> NoExc]

\* a raised exception; function is the descriptor formatted into the message
Raise(type, msg, function) ==
    [kind |-> "raise", output |-> PNone, log |-> <<>>, actions |-> <<>>,
     exc |-> [type |-> type, msg |-> msg, function |-> function]]

NoOutcome ==
    [kind |-> "none", output |-> PNone, log |-> <<>>, actions |-> <<>>,
     exc |-> NoExc]

ToolAgentAction(tool, tool_input, log, message_log, tool_call_id) ==
    [tool |-> tool, tool_input |-> tool_input, log |-> log,
     message_log |-> message_log, tool_call_id |-> tool_call_id]

\* ---------------------------------------------------------- the normalizer
ArgumentsKept(arguments) == arguments

\* function["arguments"] or "{}"
ArgumentsOrDefault(arguments) == IF arguments = "" THEN "{}" ELSE arguments

RECURSIVE LegacySkipMalformed(_)
LegacySkipMalformed(descriptors) ==
    IF descriptors = <<>>
    THEN [ok |-> TRUE, tool_calls |-> <<>>, function |-> NoFunction]
    ELSE LET tool_call == Head(descriptors)
             function == tool_call.function
             parsed == json_loads(ArgumentsOrDefault(function.arguments))
             rest == LegacySkipMalformed(Tail(descriptors))
         IN  IF ~parsed.ok THEN rest
             ELSE [rest EXCEPT !.tool_calls =
                      <<ToolCall(function.name, parsed.val, tool_call.id)>>
                      \o @]

\* the "best-effort parsing" loop over additional_kwargs["tool_calls"]:
\* ok = FALSE when json.loads raised, function is then the offending one
RECURSIVE LegacyToolCalls(_)
LegacyToolCalls(descriptors) ==
    IF descriptors = <<>>
    THEN [ok |-> TRUE, tool_calls |-> <<>>, function |-> NoFunction]
    ELSE LET tool_call == Head(descriptors)
             function == tool_call.function
             function_name == function.name
             parsed == json_loads(ArgumentsOrDefault(function.arguments))
         IN  IF ~parsed.ok
             THEN [ok |-> FALSE, tool_calls |-> <<>>, function |-> function]
             ELSE LET rest == LegacyToolCalls(Tail(descriptors))
                  IN  IF ~rest.ok THEN rest
                      ELSE [rest EXCEPT !.tool_calls =
                               <<ToolCall(function_name, parsed.val,
                                          tool_call.id)>> \o @]

ToolInputNeverUnwrapped(_tool_input) == _tool_input

ToolInputOnlySingleKey(_tool_input) ==
    IF Len(_tool_input.d) = 1 /\ HasKey(_tool_input.d, "__arg1")
    THEN PStr(ValueOf(_tool_input.d, "__arg1"))
    ELSE _tool_input

\* _tool_input.get("__arg1", _tool_input), for a dict _tool_input
ToolInput(_tool_input) ==
    IF HasKey(_tool_input.d, "__arg1")
    THEN PStr(ValueOf(_tool_input.d, "__arg1"))
    ELSE _tool_input

\* the grave accent of the log format, which a string literal here cannot hold
Backtick == "<grave accent>"

\* f"\nInvoking: '{function_name}' with '{tool_input}'\n{content_msg}\n",
\* the quotes being grave accents in the source
InvokingLog(function_name, tool_input, content) ==
    LET content_msg ==
            IF Truthy(content)
            THEN <<"responded: ">> \o PyStr(content) \o <<"\n">>
            ELSE <<"\n">>
    IN  <<"\nInvoking: ", Backtick, function_name, Backtick, " with ",
          Backtick>>
        \o PyStr(tool_input) \o <<Backtick, "\n">> \o content_msg
        \o <<"\n">>

RECURSIVE ActionsReversed(_, _)
ActionsReversed(tool_calls, msg) ==
    IF tool_calls = <<>> THEN [ok |-> TRUE, actions |-> <<>>]
    ELSE LET tool_call == Head(tool_calls)
         IN  IF tool_call.args.t # "dict"
             THEN [ok |-> FALSE, actions |-> <<>>]
             ELSE LET tool_input == ToolInput(tool_call.args)
                      rest == ActionsReversed(Tail(tool_calls), msg)
                  IN  IF ~rest.ok THEN rest
                      ELSE [rest EXCEPT !.actions =
                               @ \o <<ToolAgentAction(
                                   tool_call.name, tool_input,
                                   InvokingLog(tool_call.name, tool_input,
                                               msg.content),
                                   <<msg>>, tool_call.id)>>]

\* the loop that builds one ToolAgentAction per tool call: ok = FALSE when
\* tool_call["args"] has no .get (it is not a dict) and AttributeError escapes
RECURSIVE Actions(_, _)
Actions(tool_calls, msg) ==
    IF tool_calls = <<>> THEN [ok |-> TRUE, actions |-> <<>>]
    ELSE LET tool_call == Head(tool_calls)
             function_name == tool_call.name
             _tool_input == tool_call.args
         IN  IF _tool_input.t # "dict"
             THEN [ok |-> FALSE, actions |-> <<>>]
             ELSE LET tool_input == ToolInput(_tool_input)
                      log == InvokingLog(function_name, tool_input,
                                         msg.content)
                      rest == Actions(Tail(tool_calls), msg)
                  IN  IF ~rest.ok THEN rest
                      ELSE [rest EXCEPT !.actions =
                               <<ToolAgentAction(function_name, tool_input,
                                                 log, <<msg>>,
                                                 tool_call.id)>> \o @]

\* the tail of parse_ai_message_to_tool_action, from the working tool_calls
ActionsOutcome(tool_calls, msg) ==
    LET built == Actions(tool_calls, msg)
    IN  IF built.ok THEN ActionList(built.actions)
        ELSE Raise("AttributeError", "object has no attribute 'get'",
                   NoFunction)

LegacyOutcome(msg) ==
    LET legacy == LegacyToolCalls(msg.additional_kwargs.tool_calls)
    IN  IF ~legacy.ok
        THEN Raise("OutputParserException", "Could not parse tool input",
                   legacy.function)
        ELSE ActionsOutcome(legacy.tool_calls, msg)

ParseFinishWithoutStructured(msg) ==
    IF msg.type # "ai"
    THEN Raise("TypeError", "Expected an AI message", NoFunction)
    ELSE IF msg.tool_calls # <<>>
         THEN ActionsOutcome(msg.tool_calls, msg)
         ELSE AgentFinish(msg.content, PyStr(msg.content))

ParseLegacyFirst(msg) ==
    IF msg.type # "ai"
    THEN Raise("TypeError", "Expected an AI message", NoFunction)
    ELSE IF msg.additional_kwargs.tool_calls # <<>>
         THEN LegacyOutcome(msg)
         ELSE IF msg.tool_calls # <<>>
              THEN ActionsOutcome(msg.tool_calls, msg)
              ELSE AgentFinish(msg.content, PyStr(msg.content))

parse_ai_message_to_tool_action(msg) ==
    IF msg.type # "ai"
    THEN Raise("TypeError", "Expected an AI message", NoFunction)
    ELSE IF msg.tool_calls # <<>>
         THEN ActionsOutcome(msg.tool_calls, msg)
         ELSE IF msg.additional_kwargs.tool_calls = <<>>
              THEN AgentFinish(msg.content, PyStr(msg.content))
              ELSE LegacyOutcome(msg)

\* -------------------------------------------------------------- the adapter
\* each returns the outcome and how often it invoked the normalizer
ParseResultUnchecked(generations, is_partial) ==
    IF generations[1].kind # "ChatGeneration"
    THEN [out |-> Raise("AttributeError",
                        "object has no attribute 'message'", NoFunction),
          calls |-> 0]
    ELSE [out |-> parse_ai_message_to_tool_action(generations[1].message),
          calls |-> 1]

ParseResultLastGeneration(generations, is_partial) ==
    IF generations[1].kind # "ChatGeneration"
    THEN [out |-> Raise("ValueError",
                        "This output parser only works on ChatGeneration output",
                        NoFunction),
          calls |-> 0]
    ELSE [out |-> parse_ai_message_to_tool_action(
                      generations[Len(generations)].message),
          calls |-> 1]

\* ToolsAgentOutputParser.parse_result(result, partial=...)
parse_result(generations, is_partial) ==
    IF generations[1].kind # "ChatGeneration"
    THEN [out |-> Raise("ValueError",
                        "This output parser only works on ChatGeneration output",
                        NoFunction),
          calls |-> 0]
    ELSE LET msg == generations[1].message
         IN  [out |-> parse_ai_message_to_tool_action(msg), calls |-> 1]

\* ToolsAgentOutputParser.parse(text)
parse(t) ==
    [out |-> Raise("ValueError", "Can only parse messages", NoFunction),
     calls |-> 0]

\* ------------------------------------------------------- the state machine
\* message is the message under consideration; op, result, partial and text
\* are the last call and its inputs; outcome is what that call produced
Init ==
    /\ message \in Messages
    /\ op = "none"
    /\ result = <<>>
    /\ partial = FALSE
    /\ text = ""
    /\ outcome = NoOutcome
    /\ normalizer_calls = 0

\* a caller applies the normalizer to the message
CallParseAiMessage ==
    /\ op' = "parse_ai_message_to_tool_action"
    /\ outcome' = parse_ai_message_to_tool_action(message)
    /\ normalizer_calls' = 1
    /\ result' = <<>>
    /\ partial' = FALSE
    /\ text' = ""
    /\ UNCHANGED message

\* a caller hands the adapter a generation list that starts with first
CallParseResult(first, rest, is_partial) ==
    LET generations == <<first>> \o rest
        r == parse_result(generations, is_partial)
    IN  /\ op' = "parse_result"
        /\ result' = generations
        /\ partial' = is_partial
        /\ outcome' = r.out
        /\ normalizer_calls' = r.calls
        /\ text' = ""
        /\ UNCHANGED message

CallParseResultChat ==
    \E rest \in SeqsUpTo(RestPool, MaxRest), is_partial \in BOOLEAN :
        CallParseResult(ChatGeneration(message), rest, is_partial)

CallParseResultText ==
    \E t \in Texts, rest \in SeqsUpTo(RestPool, MaxRest),
       is_partial \in BOOLEAN :
        CallParseResult(Generation(t), rest, is_partial)

\* a caller hands the adapter raw text
CallParse ==
    \E t \in Texts :
        LET r == parse(t)
        IN  /\ op' = "parse"
            /\ text' = t
            /\ outcome' = r.out
            /\ normalizer_calls' = r.calls
            /\ result' = <<>>
            /\ partial' = FALSE
            /\ UNCHANGED message

Next ==
    \/ CallParseAiMessage
    \/ CallParseResultChat
    \/ CallParseResultText
    \/ CallParse

Spec == Init /\ [][Next]_vars

\* ---------------------------------------------------------------- claims
\* the last call was the normalizer, applied to an AI message
Normalized == op = "parse_ai_message_to_tool_action" /\ message.type = "ai"

StructuredPath == Normalized /\ message.tool_calls # <<>>

LegacyPath ==
    /\ Normalized
    /\ message.tool_calls = <<>>
    /\ message.additional_kwargs.tool_calls # <<>>

LegacyDescriptors == message.additional_kwargs.tool_calls

\* C1: an AI message with N >= 1 structured tool calls yields exactly N
\* actions in the same order; the i-th action has the i-th call's name as
\* tool, its id as tool_call_id, and a message_log of just the input message.
C1_StructuredCallsBecomeActions ==
    StructuredPath =>
        /\ outcome.kind = "actions"
        /\ Len(outcome.actions) = Len(message.tool_calls)
        /\ \A i \in DOMAIN message.tool_calls :
              /\ outcome.actions[i].tool = message.tool_calls[i].name
              /\ outcome.actions[i].tool_call_id = message.tool_calls[i].id
              /\ outcome.actions[i].message_log = <<message>>

C1_Witness ==
    /\ StructuredPath
    /\ Len(message.tool_calls) = 2
    /\ message.tool_calls[1].name # message.tool_calls[2].name
    /\ message.tool_calls[1].id # message.tool_calls[2].id
    /\ Len(outcome.actions) = 2

\* C2: the normalizer returns a finish result exactly when the structured
\* tool_calls are empty and the legacy tool_calls are absent or empty; its
\* output is message.content and its log is str(message.content). Any other
\* call that does not raise returns a non-empty list of actions.
C2_FinishExactlyWithoutToolCalls ==
    Normalized =>
        /\ outcome.kind = "AgentFinish" <=>
              /\ message.tool_calls = <<>>
              /\ \/ ~message.additional_kwargs.has_tool_calls
                 \/ message.additional_kwargs.tool_calls = <<>>
        /\ outcome.kind = "AgentFinish" =>
              /\ outcome.output = message.content
              /\ outcome.log = PyStr(message.content)
              /\ outcome.actions = <<>>
        /\ outcome.kind \notin {"AgentFinish", "raise"} =>
              /\ outcome.kind = "actions"
              /\ outcome.actions # <<>>

C2_Witness ==
    /\ Normalized
    /\ message.additional_kwargs.has_tool_calls
    /\ message.content.t = "list"
    /\ outcome.kind = "AgentFinish"
    /\ outcome.log = <<"[", "'", "block", "'", "]">>

\* the fields of an action other than message_log
ActionFields(a) ==
    [tool |-> a.tool, tool_input |-> a.tool_input, log |-> a.log,
     tool_call_id |-> a.tool_call_id]

\* the message with its legacy descriptors replaced
WithLegacy(kw) == AIMessage(message.content, message.tool_calls, kw)

\* C3 (as stated): with non-empty structured tool_calls, messages that differ
\* only in their legacy descriptors produce equal action lists and no error.
C3_EqualActionLists ==
    StructuredPath =>
        \A kw \in LegacyUpTo(MaxCalls - Len(message.tool_calls)) :
            LET other == parse_ai_message_to_tool_action(WithLegacy(kw))
            IN  /\ outcome.kind = "actions"
                /\ other.kind = "actions"
                /\ other.actions = outcome.actions

\* C3 (amended): with non-empty structured tool_calls, messages that differ
\* only in their legacy descriptors produce action lists of the same length
\* that agree, index by index, in tool, tool_input, log and tool_call_id, and
\* no error is raised; each action's message_log holds its own input message.
C3_LegacyIgnoredUpToMessageLog ==
    StructuredPath =>
        \A kw \in LegacyUpTo(MaxCalls - Len(message.tool_calls)) :
            LET other == parse_ai_message_to_tool_action(WithLegacy(kw))
            IN  /\ outcome.kind = "actions"
                /\ other.kind = "actions"
                /\ Len(other.actions) = Len(outcome.actions)
                /\ \A i \in DOMAIN outcome.actions :
                      /\ ActionFields(other.actions[i])
                            = ActionFields(outcome.actions[i])
                      /\ outcome.actions[i].message_log = <<message>>
                      /\ other.actions[i].message_log = <<WithLegacy(kw)>>

C3_Witness ==
    /\ StructuredPath
    /\ Len(LegacyDescriptors) = 1
    /\ LegacyDescriptors[1].function.arguments = "{invalid"
    /\ outcome.kind = "actions"

\* C4: a tool call whose arguments are exactly {"__arg1": v} yields
\* tool_input v; a tool call whose arguments lack the key "__arg1" yields the
\* arguments mapping unchanged; on the structured and on the legacy path.
C4_SentinelUnwrapped ==
    /\ StructuredPath =>
          /\ outcome.kind = "actions"
          /\ \A i \in DOMAIN message.tool_calls :
                LET args == message.tool_calls[i].args
                IN  /\ (Len(args.d) = 1 /\ args.d[1][1] = "__arg1") =>
                          outcome.actions[i].tool_input = PStr(args.d[1][2])
                    /\ (\A j \in DOMAIN args.d : args.d[j][1] # "__arg1") =>
                          outcome.actions[i].tool_input = args
    /\ (LegacyPath /\ outcome.kind = "actions") =>
          \A i \in DOMAIN LegacyDescriptors :
              LET arguments == LegacyDescriptors[i].function.arguments
              IN  /\ arguments = SentinelJson =>
                        outcome.actions[i].tool_input = PStr("hello")
                  /\ arguments = ABJson =>
                        outcome.actions[i].tool_input
                           = PDict(<< <<"a", "1">>, <<"b", "2">> >>)

C4_Witness ==
    /\ LegacyPath
    /\ outcome.kind = "actions"
    /\ Len(LegacyDescriptors) = 2
    /\ LegacyDescriptors[1].function.arguments = SentinelJson
    /\ LegacyDescriptors[2].function.arguments = ABJson
    /\ outcome.actions[1].tool_input = PStr("hello")

\* the argument strings that are not empty and not valid JSON
InvalidJson == {"{invalid", "{'a': 1}"}

Malformed(i) == LegacyDescriptors[i].function.arguments \in InvalidJson

\* C5: on the legacy path, if any descriptor's argument string is non-empty
\* and not valid JSON, the call raises OutputParserException naming the first
\* such descriptor's function, and returns no actions at all.
C5_MalformedArgumentsAbort ==
    (LegacyPath /\ \E i \in DOMAIN LegacyDescriptors : Malformed(i)) =>
        LET first == CHOOSE i \in DOMAIN LegacyDescriptors :
                        /\ Malformed(i)
                        /\ \A j \in 1..(i - 1) : ~Malformed(j)
        IN  /\ outcome.kind = "raise"
            /\ outcome.exc.type = "OutputParserException"
            /\ outcome.exc.function = LegacyDescriptors[first].function
            /\ outcome.actions = <<>>

C5_Witness ==
    /\ LegacyPath
    /\ Len(LegacyDescriptors) = 2
    /\ LegacyDescriptors[1].function.arguments = ABJson
    /\ Malformed(2)
    /\ outcome.exc.type = "OutputParserException"
    /\ outcome.exc.function.name = LegacyDescriptors[2].function.name

\* the argument strings that are empty or encode a JSON object
ObjectOrEmpty == {"", SentinelJson, ABJson, MixedJson}

\* C6: on the legacy path with N descriptors whose argument strings are each
\* empty or a JSON object, the call returns N actions in descriptor order,
\* the i-th with the i-th function name and id; an empty argument string
\* yields the empty mapping as tool_input.
C6_LegacyDescriptorsBecomeActions ==
    (/\ LegacyPath
     /\ \A i \in DOMAIN LegacyDescriptors :
           LegacyDescriptors[i].function.arguments \in ObjectOrEmpty) =>
        /\ outcome.kind = "actions"
        /\ Len(outcome.actions) = Len(LegacyDescriptors)
        /\ \A i \in DOMAIN LegacyDescriptors :
              /\ outcome.actions[i].tool = LegacyDescriptors[i].function.name
              /\ outcome.actions[i].tool_call_id = LegacyDescriptors[i].id
              /\ LegacyDescriptors[i].function.arguments = "" =>
                    outcome.actions[i].tool_input = PDict(<<>>)

C6_Witness ==
    /\ LegacyPath
    /\ Len(LegacyDescriptors) = 2
    /\ LegacyDescriptors[1].function.arguments = ABJson
    /\ LegacyDescriptors[2].function.arguments = ""
    /\ Len(outcome.actions) = 2
    /\ outcome.actions[2].tool_input = PDict(<<>>)

\* C7: parse_result raises ValueError whenever the first generation is not a
\* ChatGeneration, without invoking the normalizer; parse(text) raises
\* ValueError for every text and never returns a finish or an action list.
C7_AdapterErrors ==
    /\ (op = "parse_result" /\ result[1].kind # "ChatGeneration") =>
          /\ outcome.kind = "raise"
          /\ outcome.exc.type = "ValueError"
          /\ outcome.exc.msg
                = "This output parser only works on ChatGeneration output"
          /\ normalizer_calls = 0
    /\ op = "parse" =>
          /\ outcome.kind = "raise"
          /\ outcome.exc.type = "ValueError"
          /\ outcome.exc.msg = "Can only parse messages"
          /\ normalizer_calls = 0

C7_Witness ==
    /\ op = "parse_result"
    /\ Len(result) = 2
    /\ result[1].kind = "Generation"
    /\ result[2].kind = "ChatGeneration"
    /\ outcome.exc.type = "ValueError"

\* C8: for a generation list that starts with a ChatGeneration, parse_result
\* yields exactly the outcome (finish, actions or raised error) of the
\* normalizer on the first generation's message, whatever generations follow
\* and whatever the partial flag is.
C8_ParseResultDelegates ==
    (op = "parse_result" /\ result[1].kind = "ChatGeneration") =>
        /\ outcome = parse_ai_message_to_tool_action(result[1].message)
        /\ normalizer_calls = 1
        /\ \A rest \in SeqsUpTo(RestPool, MaxRest), is_partial \in BOOLEAN :
              parse_result(<<result[1]>> \o rest, is_partial).out = outcome

C8_Witness ==
    /\ op = "parse_result"
    /\ partial
    /\ Len(result) = 2
    /\ result[1].kind = "ChatGeneration"
    /\ result[2].kind = "ChatGeneration"
    /\ result[1].message.tool_calls = <<>>
    /\ outcome.kind = "AgentFinish"

\* C9: on the legacy path, whatever the argument strings are (empty, invalid
\* JSON, a JSON object, or valid JSON that is not an object), the normalizer
\* returns an action list or raises the malformed-input
\* OutputParserException; no other kind of error escapes.
C9_OnlyMalformedInputErrors ==
    LegacyPath =>
        \/ outcome.kind = "actions"
        \/ /\ outcome.kind = "raise"
           /\ outcome.exc.type = "OutputParserException"

\* C10 (as stated): the sentinel value is tool_input only when the arguments
\* mapping holds the single key "__arg1"; every other mapping, also one that
\* holds "__arg1" together with other keys, is passed as tool_input in full.
C10_UnwrappedOnlyWhenSingleKey ==
    StructuredPath =>
        /\ outcome.kind = "actions"
        /\ \A i \in DOMAIN message.tool_calls :
              LET args == message.tool_calls[i].args
              IN  IF Len(args.d) = 1 /\ args.d[1][1] = "__arg1"
                  THEN outcome.actions[i].tool_input = PStr(args.d[1][2])
                  ELSE outcome.actions[i].tool_input = args

\* C10 (amended): the sentinel value is tool_input whenever the arguments
\* mapping holds the key "__arg1", alone or together with other keys (which
\* are then dropped); a mapping without that key is passed in full.
C10_UnwrappedWheneverKeyPresent ==
    /\ StructuredPath =>
          /\ outcome.kind = "actions"
          /\ \A i \in DOMAIN message.tool_calls :
                LET args == message.tool_calls[i].args
                    at == {j \in DOMAIN args.d : args.d[j][1] = "__arg1"}
                IN  IF at # {}
                    THEN \E j \in at :
                            outcome.actions[i].tool_input = PStr(args.d[j][2])
                    ELSE outcome.actions[i].tool_input = args
    /\ (LegacyPath /\ outcome.kind = "actions") =>
          \A i \in DOMAIN LegacyDescriptors :
              LegacyDescriptors[i].function.arguments = MixedJson =>
                  outcome.actions[i].tool_input = PStr("hello")

C10_Witness ==
    /\ StructuredPath
    /\ Len(message.tool_calls[1].args.d) = 2
    /\ message.tool_calls[1].args.d[2][1] = "__arg1"
    /\ outcome.kind = "actions"
    /\ outcome.actions[1].tool_input = PStr("hello")

====
